---- MODULE Spec2Model ----
\* Conversation persistence and analytics of the Gemini assistant:
\*   src/streamlit_ui.py  - the chat UI: login, send, reset, reload
\*   src/firebase_auth.py - the remote (Firebase) user and history API
\*   src/dashboard.py     - the analytics aggregator, calculate_stats
\*
\* Timestamps are the values of datetime.now().isoformat(); they are modelled
\* by the integers 1..MaxClock, whose order is the order of the fixed-width
\* ISO strings.  A remote call (a get, set or delete on a db.reference, or a
\* call of auth) either completes or raises; every function of the source that
\* wraps such a call in try/except is modelled with both outcomes, the outcome
\* being an input of the action.
EXTENDS Integers, Sequences, FiniteSets, TLC

\* ------------------------------------------------------------- bounds
MaxClock   == 2      \* clock values 1..MaxClock
MaxHist    == 2      \* longest session history / local file
MaxAppends == 2      \* cap of the counter of remote appends
MaxLimit   == 3      \* limits 0..MaxLimit given to get_user_conversations
MaxScenario == 3     \* clock values and appends of the three-entry scenarios
MaxText    == 2      \* longest text of an exported field, in characters

\* ---------------------------------------------------------- constants
GUEST     == "guest"
AuthUsers == {"u1"}           \* the identity that signs up in the runs
OtherUsers == {"u2"}          \* an identity that signed up before the runs
Accounts  == AuthUsers \cup OtherUsers
Users     == {GUEST} \cup Accounts
NoUser    == "none"          \* "user_id" not in st.session_state
NoTs      == 0               \* a record that carries no 'timestamp' field
BadTs     == -1              \* a 'timestamp' that is not an ISO date

Clock == 1..MaxClock

\* What one turn is made of: the prompt typed, the model's response, and the
\* mode and language selected in the sidebar.
Turns ==
  { [prompt |-> "p1", response |-> "r1",  mode |-> "chat", language |-> "en"],
    [prompt |-> "p2", response |-> "",    mode |-> "qa",   language |-> "es"] }

\* The turns taken in the runs of the chat page.
Inputs == { t \in Turns : t.prompt = "p1" }

\* len(response)
StrLen(s) == CASE s = "" -> 0 [] s = "r1" -> 2 [] OTHER -> 1

Min(a, b) == IF a <= b THEN a ELSE b
Max(a, b) == IF a >= b THEN a ELSE b

VARIABLES
  now,              \* the wall clock read by datetime.now()
  firebase_ok,      \* result of init_firebase() in this process
  user_id,          \* st.session_state.user_id, or NoUser
  firebase_enabled, \* st.session_state.firebase_enabled
  history,          \* st.session_state.history
  notice,           \* messages the last handler showed (st.success/st.error)
  authIds,          \* identities known to the auth collaborator
  profile,          \* users/{uid}/profile
  conversations,    \* users/{uid}/conversations: timestamp key -> node
  files,            \* user_histories/chat_history_{user_id}.json
  appended,         \* per user: entries appended through the remote path
  listed,           \* last result of firebase_auth.get_user_conversations
  stats,            \* last result of dashboard.calculate_stats
  reads,            \* which remote reads of that run completed
  history_dir,      \* the directory user_histories
  parked,           \* st.session_state of the other browser session
  inflight,         \* calls of save_conversation_to_user between two remote calls
  exported          \* last text produced by "Export", and what it was made from

vars == << now, firebase_ok, user_id, firebase_enabled, history, notice,
           authIds, profile, conversations, files, appended, listed, stats, reads,
           history_dir, parked, inflight, exported >>

aux == << parked, inflight, exported >>

session == << user_id, firebase_enabled, history >>
remote  == << authIds, profile, conversations >>


\* ------------------------------------------------------------ records
\* The entry main() builds for one turn (streamlit_ui.py:437-443).
Entry(ts, inp) ==
  [timestamp |-> ts, prompt |-> inp.prompt, response |-> inp.response,
   mode |-> inp.mode, language |-> inp.language]

\* conv['timestamp'] = timestamp / {**conv, 'timestamp': ts}
WithTs(node, ts) == [node EXCEPT !.timestamp = ts]

\* A file of the history directory: absent, or a JSON array of entries.
\* parses: json.load of the content returns.
NoFile       == [exists |-> FALSE, parses |-> FALSE, entries |-> << >>]
FileOf(list) == [exists |-> TRUE,  parses |-> TRUE,  entries |-> list]
CorruptFile  == [exists |-> TRUE,  parses |-> FALSE, entries |-> << >>]

\* A profile node: absent, or an object that may lack interaction_count.
NoProfile == [exists |-> FALSE, has_count |-> FALSE, interaction_count |-> 0]

\* A conversations node without children.
NoConversations == [k \in {} |-> Entry(NoTs, CHOOSE i \in Turns : TRUE)]

\* db.reference(path).set(data) on users/{uid}/conversations/{timestamp}
PutChild(coll, ts, node) ==
  [k \in (DOMAIN coll) \cup {ts} |-> IF k = ts THEN node ELSE coll[k]]

\* ------------------------------------------------- local backend (UI)
\* The directory user_histories: present; absent; or absent in a place where
\* it cannot be created ("denied": os.makedirs raises).  order is the order in
\* which os.listdir names the history files of the users.
Orders ==
  { o \in [1..Cardinality(Users) -> Users] : \A u \in Users : \E i \in DOMAIN o : o[i] = u }

ListedFirst == CHOOSE o \in Orders : o[1] = GUEST /\ o[2] \in AuthUsers

PresentDir == [state |-> "present", order |-> ListedFirst]

\* ensure_user_history_dir(): the directory after the call, when it returns.
ensure_user_history_dir(dir) ==
  IF dir.state = "absent" THEN [dir EXCEPT !.state = "present"] ELSE dir

\* get_user_history_path(user_id) raises: os.makedirs cannot create the
\* directory.  The call is made by load_chat_history and save_chat_history
\* outside their try blocks.
get_user_history_path_raises(dir) == dir.state = "denied"

\* load_chat_history(user_id=...), when get_user_history_path returns: [] when
\* the file is absent or json.load raises.
load_chat_history(fl, uid) ==
  IF ~fl[uid].exists \/ ~fl[uid].parses THEN << >> ELSE fl[uid].entries

\* A save that keeps the entries of the file that the list does not hold.
save_merging_file(fl, list, uid, ok) ==
  IF ok
  THEN [fl EXCEPT ![uid] =
          FileOf(list \o SelectSeq(load_chat_history(fl, uid),
                                   LAMBDA e : \A i \in DOMAIN list : list[i] # e))]
  ELSE fl

\* save_chat_history(history, user_id=...): the file is rewritten with the
\* whole list; an exception of open/json.dump is caught and only displayed.
save_chat_history(fl, list, uid, ok) ==
  IF ok THEN [fl EXCEPT ![uid] = FileOf(list)] ELSE fl

\* ------------------------------------------------ remote backend (UI)
\* The list built from the conversations dict, newest first.
RECURSIVE SortDesc(_, _)
SortDesc(coll, keys) ==
  IF keys = {} THEN << >>
  ELSE LET k == CHOOSE x \in keys : \A y \in keys : y <= x
       IN  << WithTs(coll[k], k) >> \o SortDesc(coll, keys \ {k})

\* load_user_history_from_firebase(uid): [] when the read raises or the node
\* is absent or empty.
load_user_history_from_firebase(conv, uid, ok) ==
  IF ~ok \/ DOMAIN conv[uid] = {} THEN << >>
  ELSE SortDesc(conv[uid], DOMAIN conv[uid])

\* The data save_user_history_to_firebase stores: the four text fields, the
\* timestamp being the key only.
StoredData(entry) == [entry EXCEPT !.timestamp = NoTs]

\* A save under a path that does not name the user: the node lands in every
\* account's collection.
save_under_shared_path(conv, uid, entry, key, ok) ==
  IF ok THEN [u \in DOMAIN conv |->
                IF u \in Accounts THEN PutChild(conv[u], key, StoredData(entry))
                ELSE conv[u]]
  ELSE conv

\* save_user_history_to_firebase(uid, conversation): one node under the key
\* read from the clock inside the function; nothing when the set raises.
save_user_history_to_firebase(conv, uid, entry, key, ok) ==
  IF ok THEN [conv EXCEPT ![uid] = PutChild(conv[uid], key, StoredData(entry))]
  ELSE conv

\* The two branches of the save taken the wrong way round.
UseRemoteSwapped(uid, fe) == ~(uid # GUEST /\ fe)

\* The condition of main() that sends a save to the remote backend.
UseRemote(uid, fe) == uid # GUEST /\ fe

\* The condition of main() that loads the history from the remote backend.
LoadFromRemote(uid) == uid # GUEST

\* The history main() loads when "history" is not in st.session_state.
LoadHistory(conv, fl, uid, ok) ==
  IF LoadFromRemote(uid) THEN load_user_history_from_firebase(conv, uid, ok)
  ELSE load_chat_history(fl, uid)


\* ------------------------------------------------------- initial state
NoListing == [uid |-> NoUser, limit |-> 0, ok |-> FALSE, result |-> << >>]

NoCounter == [v \in {} |-> 0]

NoStats ==
  [run |-> FALSE, firebase_enabled |-> FALSE, total_users |-> 0,
   total_conversations |-> 0, total_messages |-> 0,
   languages_used |-> NoCounter, modes_used |-> NoCounter,
   active_today |-> 0, avg_response_length |-> 0]

NoReads == [usersOk |-> FALSE, failing |-> {}]

\* A browser session on the login page.
NoSession ==
  [user_id |-> NoUser, firebase_enabled |-> FALSE, history |-> << >>, notice |-> {}]

\* The concurrent callers of save_conversation_to_user, and a caller that is
\* not inside a call.
Callers == {1, 2}
Idle == [pc |-> "idle", uid |-> NoUser, count |-> 0]

NoExport == [made |-> FALSE, from |-> << >>, text |-> << >>]

\* No conversation is stored, on either backend.
EmptyStores ==
  /\ conversations = [u \in Users |-> NoConversations]
  /\ files = [u \in Users |-> NoFile]
  /\ appended = [u \in Users |-> 0]

\* The process has started and shows the login page; nothing has run yet.
LoginPage ==
  /\ now = 1
  /\ firebase_ok \in BOOLEAN
  /\ user_id = NoUser
  /\ firebase_enabled = firebase_ok
  /\ history = << >>
  /\ notice = {}
  /\ listed = NoListing
  /\ stats = NoStats
  /\ reads = NoReads
  /\ parked = NoSession
  /\ inflight = [c \in Callers |-> Idle]
  /\ exported = NoExport

\* The process starts on the login page, with empty stores.
Init ==
  /\ LoginPage
  /\ authIds = {}
  /\ profile = [u \in Users |-> NoProfile]
  /\ EmptyStores
  /\ history_dir = PresentDir

\* ----------------------------------------------------- UI: login page
\* show_login_page, "Continue as Guest", and the rerun that loads the history.
\* When get_user_history_path raises, main() ends with the exception before
\* "history" is put in st.session_state.
ContinueAsGuest ==
  /\ user_id = NoUser
  /\ ~firebase_ok
  /\ user_id' = GUEST
  /\ firebase_enabled' = FALSE
  /\ history_dir' = ensure_user_history_dir(history_dir)
  /\ IF get_user_history_path_raises(history_dir)
     THEN history' = << >> /\ notice' = {"exception"}
     ELSE history' = LoadHistory(conversations, files, GUEST, TRUE) /\ notice' = {}
  /\ UNCHANGED << now, firebase_ok, remote, files, appended, listed, stats, reads, aux >>

\* show_login_page, "Login" (firebase_login succeeds for a known identity),
\* and the rerun that loads the history; readOk: the remote read completes.
Login(u, readOk) ==
  /\ user_id = NoUser
  /\ firebase_ok
  /\ u \in authIds
  /\ user_id' = u
  /\ firebase_enabled' = TRUE
  /\ history' = LoadHistory(conversations, files, u, readOk)
  /\ notice' = {}
  /\ UNCHANGED << now, firebase_ok, remote, files, appended, listed, stats, reads, history_dir, aux >>

\* show_login_page, "Sign Up" -> firebase_signup: the identity is created, then
\* the profile (email, display_name, created_at) is set; setOk: the set of the
\* profile completes.
firebase_signup(u, setOk) ==
  /\ user_id = NoUser
  /\ firebase_ok
  /\ u \in AuthUsers \ authIds
  /\ authIds' = authIds \cup {u}
  /\ profile' = IF setOk
                THEN [profile EXCEPT ![u] = [exists |-> TRUE, has_count |-> FALSE,
                                             interaction_count |-> 0]]
                ELSE profile
  /\ notice' = {}
  /\ UNCHANGED << now, firebase_ok, session, conversations, files, appended,
                  listed, stats, reads, history_dir, aux >>

\* "Logout": st.session_state.clear(), and the login page is shown again.
Logout ==
  /\ user_id # NoUser
  /\ user_id' = NoUser
  /\ firebase_enabled' = firebase_ok
  /\ history' = << >>
  /\ notice' = {}
  /\ UNCHANGED << now, firebase_ok, remote, files, appended, listed, stats, reads, history_dir, aux >>

\* The process is started again (a new session on the login page); the
\* credentials file may have been added or removed meanwhile.
Restart(fb) ==
  /\ firebase_ok' = fb
  /\ user_id' = NoUser
  /\ firebase_enabled' = fb
  /\ history' = << >>
  /\ notice' = {}
  /\ UNCHANGED << now, remote, files, appended, listed, stats, reads, history_dir, aux >>

\* Time passes.
Tick ==
  /\ now' = now + 1
  /\ UNCHANGED << firebase_ok, session, notice, remote, files, appended,
                  listed, stats, reads, history_dir, aux >>


\* datetime.now() is the local wall clock, without a time zone: the hour
\* repeated when summer time ends, or a correction of the clock, sets it back.
SetBack ==
  /\ \E t \in 1..(now - 1) : now' = t
  /\ UNCHANGED << firebase_ok, session, notice, remote, files, appended,
                  listed, stats, reads, history_dir, aux >>


\* ------------------------------------------------------ UI: chat page
\* The clock values a second datetime.now() of the same handler can return.
LaterReads == { now, now + 1 }

\* What "Send" shows after the save: the save functions catch the exception of
\* a failed write and display it; main ignores their result and shows "Saved".
SaveNotice(ok) == IF ok THEN {"saved"} ELSE {"save_error", "saved"}

\* "Send" with a non-blank prompt (main, lines 423-456).
\*   genOk - get_response returns (it raises otherwise, and main shows the error)
\*   key   - the clock read inside save_user_history_to_firebase
\*   ok    - the write (remote set, or the rewrite of the local file) completes
\* An exception of get_user_history_path is caught by main, after the insert.
Send(inp, key, genOk, ok) ==
  /\ user_id # NoUser
  /\ IF ~genOk
     THEN /\ key = now
          /\ ok
          /\ notice' = {"error"}
          /\ UNCHANGED << now, history, conversations, files, appended, history_dir >>
     ELSE LET entry == Entry(now, inp) IN
          /\ history' = << entry >> \o history
          /\ IF UseRemote(user_id, firebase_enabled)
             THEN /\ key \in LaterReads
                  /\ now' = key
                  /\ conversations' = save_user_history_to_firebase(
                                        conversations, user_id, entry, key, ok)
                  /\ appended' = IF ok
                                 THEN [appended EXCEPT ![user_id] = @ + 1]
                                 ELSE appended
                  /\ notice' = SaveNotice(ok)
                  /\ UNCHANGED << files, history_dir >>
             ELSE /\ key = now
                  /\ history_dir' = ensure_user_history_dir(history_dir)
                  /\ IF get_user_history_path_raises(history_dir)
                     THEN ok /\ files' = files /\ notice' = {"error"}
                     ELSE /\ files' = save_chat_history(files, history', user_id, ok)
                          /\ notice' = SaveNotice(ok)
                  /\ UNCHANGED << now, conversations, appended >>
  /\ UNCHANGED << firebase_ok, user_id, firebase_enabled, authIds, profile,
                  listed, stats, reads, aux >>

\* "Reset Chat" (main, lines 384-388); ok: the rewrite of the file completes.
\* An exception of get_user_history_path ends the run of main.
ResetChat(ok) ==
  /\ user_id # NoUser
  /\ history' = << >>
  /\ history_dir' = ensure_user_history_dir(history_dir)
  /\ IF get_user_history_path_raises(history_dir)
     THEN ok /\ files' = files /\ notice' = {"exception"}
     ELSE /\ files' = save_chat_history(files, << >>, user_id, ok)
          /\ notice' = IF ok THEN {"cleared"} ELSE {"save_error", "cleared"}
  /\ UNCHANGED << now, firebase_ok, user_id, firebase_enabled, remote,
                  appended, listed, stats, reads, aux >>

\* "Delete All" (main, lines 484-489), offered while the history is not empty.
DeleteAll(ok) ==
  /\ user_id # NoUser
  /\ history # << >>
  /\ history' = << >>
  /\ history_dir' = ensure_user_history_dir(history_dir)
  /\ IF get_user_history_path_raises(history_dir)
     THEN ok /\ files' = files /\ notice' = {"exception"}
     ELSE /\ files' = save_chat_history(files, << >>, user_id, ok)
          /\ notice' = IF ok THEN {} ELSE {"save_error"}
  /\ UNCHANGED << now, firebase_ok, user_id, firebase_enabled, remote,
                  appended, listed, stats, reads, aux >>

\* "Reload from Firebase" of the debug panel (main, lines 366-369), offered to
\* every user; readOk: the remote read completes.
ReloadFromFirebase(readOk) ==
  /\ user_id # NoUser
  /\ history' = load_user_history_from_firebase(conversations, user_id, readOk)
  /\ notice' = {}
  /\ UNCHANGED << now, firebase_ok, user_id, firebase_enabled, remote, files,
                  appended, listed, stats, reads, history_dir, aux >>


\* ------------------------------------------------- UI: two browsers
\* st.session_state is kept per browser session.  The stores are shared; the
\* handlers of the two sessions run one after the other in any order.  Switch
\* gives the turn to the other session.
ActiveSession ==
  [user_id |-> user_id, firebase_enabled |-> firebase_enabled,
   history |-> history, notice |-> notice]

Sessions == { ActiveSession, parked }

Switch ==
  /\ parked' = ActiveSession
  /\ user_id' = parked.user_id
  /\ firebase_enabled' = parked.firebase_enabled
  /\ history' = parked.history
  /\ notice' = parked.notice
  /\ UNCHANGED << now, firebase_ok, remote, files, appended, listed, stats,
                  reads, history_dir, inflight, exported >>


\* --------------------------------------------------------- UI: export
\* A text is a sequence of characters.  The characters that matter to JSON: a
\* plain one, the quote, the backslash and the newline.
Chars == { "n", "\"", "\\", "\n" }

Texts == UNION { [1..n -> Chars] : n \in 0..MaxText }

\* A character with no escape.
EscapeCharPlain(c) == << c >>

\* The characters json.dumps(..., ensure_ascii=False) writes for one character
\* of a string.
EscapeChar(c) ==
  CASE c = "\""  -> << "\\", "\"" >>
    [] c = "\\"  -> << "\\", "\\" >>
    [] c = "\n"  -> << "\\", "n" >>
    [] OTHER     -> << c >>

RECURSIVE Escape(_)
Escape(t) == IF t = << >> THEN << >> ELSE EscapeChar(Head(t)) \o Escape(Tail(t))

\* The string literal json.dumps writes for a text.
JsonString(t) == << "\"" >> \o Escape(t) \o << "\"" >>

\* The character json.loads reads for a backslash followed by c.
UnescapeChar(c) == IF c = "n" THEN "\n" ELSE c

RECURSIVE Unescape(_)
Unescape(lit) ==
  IF lit = << >> THEN << >>
  ELSE IF Head(lit) = "\\" /\ Len(lit) >= 2
       THEN << UnescapeChar(lit[2]) >> \o Unescape(SubSeq(lit, 3, Len(lit)))
       ELSE << Head(lit) >> \o Unescape(Tail(lit))

\* The text json.loads reads from a string literal.
ParseString(lit) == Unescape(SubSeq(lit, 2, Len(lit) - 1))

\* A list of dicts is a sequence of sequences of << key, value >> pairs, in
\* insertion order; json.dumps writes the objects and their members in that
\* order (indentation and separators are fixed), json.loads reads them in the
\* order of the text.
json_dumps(list) ==
  [i \in DOMAIN list |->
     [j \in DOMAIN list[i] |->
        << JsonString(list[i][j][1]), JsonString(list[i][j][2]) >>]]

json_loads(text) ==
  [i \in DOMAIN text |->
     [j \in DOMAIN text[i] |->
        << ParseString(text[i][j][1]), ParseString(text[i][j][2]) >>]]

\* The ISO text of a clock value: characters without escapes.
IsoText(ts) == [i \in 1..ts |-> "0"]

\* The dict main() builds for one turn, its texts spelled out.
EntryDict(ts, prompt, response) ==
  << << << "timestamp" >>, IsoText(ts) >>,
     << << "prompt" >>,    prompt >>,
     << << "response" >>,  response >>,
     << << "mode" >>,      << "chat" >> >>,
     << << "language" >>,  << "en" >> >> >>

\* "Export" (main, lines 474-482), offered while the history is not empty: the
\* data of the download is json.dumps of the session history.
Export ==
  /\ user_id # NoUser
  /\ history # << >>
  /\ exported' = [made |-> TRUE, from |-> history, text |-> json_dumps(history)]
  /\ UNCHANGED << now, firebase_ok, session, notice, remote, files, appended,
                  listed, stats, reads, history_dir, parked, inflight >>


\* ------------------------------------------- remote API (firebase_auth)
\* sign_up: the identity is created, then the profile is set with
\* interaction_count 0; setOk: the set of the profile completes.
sign_up(u, setOk) ==
  /\ u \in AuthUsers \ authIds
  /\ authIds' = authIds \cup {u}
  /\ profile' = IF setOk
                THEN [profile EXCEPT ![u] = [exists |-> TRUE, has_count |-> TRUE,
                                             interaction_count |-> 0]]
                ELSE profile
  /\ UNCHANGED << now, firebase_ok, session, notice, conversations, files,
                  appended, listed, stats, reads, history_dir, aux >>

\* profile.get('interaction_count', 0) + 1
NextCount(p) == (IF p.has_count THEN p.interaction_count ELSE 0) + 1

\* save_conversation_to_user(uid, conversation): the conversation is set under
\* the clock's value, then the profile is read and interaction_count is set to
\* the value read plus one.  fail names the call that raises:
\*   "write" - initialize_firebase or the set of the conversation
\*   "count" - the read of the profile or the set of interaction_count
\* A missing profile makes profile.get raise after the conversation is set.
save_conversation_to_user(u, conversation, fail) ==
  /\ u \in authIds
  /\ IF fail = "write"
     THEN UNCHANGED << conversations, profile, appended >>
     ELSE /\ conversations' =
               [conversations EXCEPT ![u] = PutChild(@, now, conversation)]
          /\ appended' = [appended EXCEPT ![u] = @ + 1]
          /\ profile' =
               IF fail = "count" \/ ~profile[u].exists THEN profile
               ELSE [profile EXCEPT ![u].has_count = TRUE,
                                    ![u].interaction_count = NextCount(profile[u])]
  /\ UNCHANGED << now, firebase_ok, session, notice, authIds, files, listed,
                  stats, reads, history_dir, aux >>

\* The same call as its remote calls happen, for callers that run at the same
\* time.  First the conversation is set and the profile is read (what other
\* callers do between these two does not change what is read last); the
\* caller then holds the count it is about to write.  fail = "count": the read
\* of the profile raises.
save_conversation_read(c, u, conversation, fail) ==
  /\ inflight[c].pc = "idle"
  /\ u \in authIds
  /\ fail # "write"
  /\ conversations' = [conversations EXCEPT ![u] = PutChild(@, now, conversation)]
  /\ appended' = [appended EXCEPT ![u] = @ + 1]
  /\ inflight' =
       IF fail = "count" \/ ~profile[u].exists THEN inflight
       ELSE [inflight EXCEPT ![c] = [pc |-> "read", uid |-> u,
                                     count |-> NextCount(profile[u])]]
  /\ UNCHANGED << now, firebase_ok, session, notice, authIds, profile, files,
                  listed, stats, reads, history_dir, parked, exported >>

\* Then interaction_count is set to the count held; setOk: the set completes.
save_conversation_count(c, setOk) ==
  /\ inflight[c].pc = "read"
  /\ profile' =
       IF setOk
       THEN [profile EXCEPT ![inflight[c].uid].has_count = TRUE,
                            ![inflight[c].uid].interaction_count = inflight[c].count]
       ELSE profile
  /\ inflight' = [inflight EXCEPT ![c] = Idle]
  /\ UNCHANGED << now, firebase_ok, session, notice, authIds, conversations,
                  files, appended, listed, stats, reads, history_dir, parked,
                  exported >>

\* A slice that keeps one entry too many.
PySliceInclusive(list, limit) == SubSeq(list, 1, Min(limit + 1, Len(list)))

\* conv_list[:limit]
PySlice(list, limit) ==
  IF limit >= 0 THEN SubSeq(list, 1, Min(limit, Len(list)))
  ELSE SubSeq(list, 1, Max(Len(list) + limit, 0))

\* firebase_auth.get_user_conversations(uid, limit): the nodes with their key
\* as 'timestamp', newest first, cut to limit; [] when a call raises.
get_user_conversations(conv, uid, limit, ok) ==
  IF ~ok \/ DOMAIN conv[uid] = {} THEN << >>
  ELSE PySlice(SortDesc(conv[uid], DOMAIN conv[uid]), limit)

\* A call of get_user_conversations; its result is kept in listed.
GetUserConversations(u, limit, ok) ==
  /\ u \in AuthUsers
  /\ listed' = [uid |-> u, limit |-> limit, ok |-> ok,
                result |-> get_user_conversations(conversations, u, limit, ok)]
  /\ UNCHANGED << now, firebase_ok, session, notice, remote, files, appended,
                  stats, reads, history_dir, aux >>

\* delete_user_account(uid): auth.delete_user, then the delete of users/{uid}.
\* fail names the call that raises: "auth" (also initialize_firebase, or an
\* identity that does not exist) or "db".
delete_user_account(u, fail) ==
  /\ u \in AuthUsers
  /\ IF fail = "auth" \/ u \notin authIds
     THEN UNCHANGED << authIds, profile, conversations, appended >>
     ELSE /\ authIds' = authIds \ {u}
          /\ IF fail = "db"
             THEN UNCHANGED << profile, conversations, appended >>
             ELSE /\ profile' = [profile EXCEPT ![u] = NoProfile]
                  /\ conversations' = [conversations EXCEPT ![u] = NoConversations]
                  /\ appended' = [appended EXCEPT ![u] = 0]
  /\ UNCHANGED << now, firebase_ok, session, notice, files, listed, stats, reads, history_dir, aux >>


\* ------------------------------------------------ aggregator (dashboard)
\* dashboard.get_all_users: the keys under users; [] when the read raises.
get_all_users(prof, conv, ok) ==
  IF ok THEN { u \in Users : prof[u].exists \/ DOMAIN conv[u] # {} } ELSE {}

\* The values of a conversations dict, in key order.
RECURSIVE Values(_, _)
Values(coll, keys) ==
  IF keys = {} THEN << >>
  ELSE LET k == CHOOSE x \in keys : \A y \in keys : x <= y
       IN  << coll[k] >> \o Values(coll, keys \ {k})

\* dashboard.get_user_conversations(uid): the stored nodes as they are (their
\* key is not added to them); [] when the read raises.
dashboard_get_user_conversations(conv, uid, ok) ==
  IF ok THEN Values(conv[uid], DOMAIN conv[uid]) ELSE << >>

\* get_all_local_histories: user id -> content of its history file, for the
\* files os.listdir names, in that order.  The loop is inside one try: a
\* json.load that raises ends it, and the files named later are not loaded.
get_all_local_histories(fl, dir) ==
  LET names  == SelectSeq(dir.order, LAMBDA u : fl[u].exists)
      bad    == { i \in DOMAIN names : ~fl[names[i]].parses }
      loaded == { names[i] : i \in { j \in DOMAIN names : \A b \in bad : j < b } }
  IN  IF dir.state # "present" THEN [u \in {} |-> << >>]
      ELSE [u \in loaded |-> fl[u].entries]

\* A local loop that counts every history file.
CountLocalAll(fbOk, uid) == TRUE

\* The guard of the local loop of calculate_stats.
CountLocal(fbOk, uid) == ~fbOk \/ uid = GUEST

\* The concatenation of lists[u] over the ids of S.
RECURSIVE Concat(_, _)
Concat(lists, S) ==
  IF S = {} THEN << >>
  ELSE LET u == CHOOSE x \in S : TRUE IN lists[u] \o Concat(lists, S \ {u})

RECURSIVE SumLen(_, _)
SumLen(list, i) ==
  IF i > Len(list) THEN 0 ELSE StrLen(list[i].response) + SumLen(list, i + 1)

\* datetime.fromisoformat(conv.get('timestamp', '')) returns a value
Parses(ts) == ts \notin {NoTs, BadTs}

\* .date() of a timestamp
DateOf(ts) == ts

\* The users with an entry of list dated today.
ActiveIn(lists, today) ==
  { u \in DOMAIN lists :
      \E i \in 1..Len(lists[u]) :
         Parses(lists[u][i].timestamp) /\ DateOf(lists[u][i].timestamp) = today }

\* stats['languages_used']: Counter of the 'language' of the records counted.
LanguagesUsed(list) ==
  [v \in { list[i].language : i \in 1..Len(list) } |->
     Cardinality({ i \in 1..Len(list) : list[i].language = v })]

\* stats['modes_used']: Counter of the 'mode' of the records counted.
ModesUsed(list) ==
  [v \in { list[i].mode : i \in 1..Len(list) } |->
     Cardinality({ i \in 1..Len(list) : list[i].mode = v })]

\* A loop that an unparsable timestamp ends: the bad entry is the last counted.
ScannedUntilBad(list) ==
  LET bad == { i \in DOMAIN list : ~Parses(list[i].timestamp) }
  IN  IF bad = {} THEN list
      ELSE SubSeq(list, 1, CHOOSE b \in bad : \A c \in bad : b <= c)

\* The entries of a list that the loop over it gets through: all of them, the
\* exception of datetime.fromisoformat being caught inside the loop body.
Scanned(list) == list

\* A stored value that is not an object: a string where a record is expected.
NotAnObject == [scalar |-> "x"]

\* conv.get(...) returns: the record is a dict.
IsObject(c) == "response" \in DOMAIN c

\* The order of the keys of users in the snapshot: sorted.
RemoteOrder == ListedFirst

\* One of the two loops of calculate_stats over the lists of the users of
\* order.  Per user, total_conversations grows by len(conversations) first;
\* per record, total_messages grows by one first and then the record is read
\* with conv.get, which raises for a value that is not a dict; that exception
\* is caught outside the loop and ends it.
\*   offered - what the loop added to total_conversations
\*   tallied - what it added to total_messages
\*   done    - per user reached, the records whose fields were read
RECURSIVE Loop(_, _)
Loop(order, lists) ==
  IF order = << >>
  THEN [offered |-> 0, tallied |-> 0, done |-> [u \in {} |-> << >>]]
  ELSE LET u   == Head(order)
           l   == lists[u]
           bad == { i \in DOMAIN l : ~IsObject(l[i]) }
       IN  IF bad = {}
           THEN LET r == Loop(Tail(order), lists)
                IN  [offered |-> Len(l) + r.offered,
                     tallied |-> Len(l) + r.tallied,
                     done    |-> (u :> l) @@ r.done]
           ELSE LET b == CHOOSE i \in bad : \A j \in bad : i <= j
                IN  [offered |-> Len(l),
                     tallied |-> b,
                     done    |-> (u :> SubSeq(l, 1, b - 1))]

\* calculate_stats().
\*   fbOk    - init_firebase() of the dashboard process
\*   usersOk - the read of users completes
\*   failing - the ids whose read of conversations raises
calculate_stats(conv, prof, fl, dir, today, fbOk, usersOk, failing) ==
  LET users   == IF fbOk THEN get_all_users(prof, conv, usersOk) ELSE {}
      rlists  == [u \in users |->
                    Scanned(dashboard_get_user_conversations(conv, u, u \notin failing))]
      local   == get_all_local_histories(fl, dir)
      counted == { u \in DOMAIN local : CountLocal(fbOk, u) }
      llists  == [u \in counted |-> Scanned(local[u])]
      rloop   == Loop(SelectSeq(RemoteOrder, LAMBDA u : u \in users), rlists)
      lloop   == Loop(SelectSeq(dir.order, LAMBDA u : u \in counted), llists)
      all     == Concat(rloop.done, DOMAIN rloop.done)
                   \o Concat(lloop.done, DOMAIN lloop.done)
      answered == SelectSeq(all, LAMBDA c : c.response # "")
  IN [run |-> TRUE,
      firebase_enabled    |-> fbOk,
      total_users         |-> Max(Cardinality(users), Cardinality(DOMAIN local)),
      total_conversations |-> rloop.offered + lloop.offered,
      total_messages      |-> rloop.tallied + lloop.tallied,
      languages_used      |-> LanguagesUsed(all),
      modes_used          |-> ModesUsed(all),
      active_today        |-> Cardinality(ActiveIn(rloop.done, today)
                                          \cup ActiveIn(lloop.done, today)),
      avg_response_length |-> IF answered = << >> THEN 0
                              ELSE SumLen(answered, 1) \div Len(answered)]

\* A run of the dashboard; its result is kept in stats, and the outcome of its
\* remote reads in reads.
CalculateStats(fbOk, usersOk, failing) ==
  /\ stats' = calculate_stats(conversations, profile, files, history_dir,
                              DateOf(now), fbOk, usersOk, failing)
  /\ reads' = [usersOk |-> usersOk, failing |-> failing]
  /\ UNCHANGED << now, firebase_ok, session, notice, remote, files, appended,
                  listed, history_dir, aux >>

\* --------------------------------------------------------- specification
Failures == {"none", "write", "count"}
DeleteFailures == {"none", "auth", "db"}

\* The conversations a caller hands to save_conversation_to_user: the object of
\* the remote layout, with the four text fields of a turn (the key is the
\* timestamp).
Conversations == { StoredData(Entry(now, i)) : i \in Inputs }

Next ==
  \/ ContinueAsGuest
  \/ \E u \in AuthUsers, readOk \in BOOLEAN : Login(u, readOk)
  \/ \E u \in AuthUsers, setOk \in BOOLEAN : firebase_signup(u, setOk)
  \/ Logout
  \/ \E fb \in BOOLEAN : Restart(fb)
  \/ now < MaxClock /\ Tick
  \/ /\ user_id # NoUser
     /\ Len(history) < MaxHist
     /\ UseRemote(user_id, firebase_enabled) => appended[user_id] < MaxAppends
     /\ \E inp \in Inputs, key \in Clock, genOk \in BOOLEAN, ok \in BOOLEAN :
          Send(inp, key, genOk, ok)
  \/ \E ok \in BOOLEAN : ResetChat(ok)
  \/ \E ok \in BOOLEAN : DeleteAll(ok)
  \/ \E readOk \in BOOLEAN : ReloadFromFirebase(readOk)
  \/ \E u \in AuthUsers, setOk \in BOOLEAN : sign_up(u, setOk)
  \/ \E u \in AuthUsers, c \in Conversations, fail \in Failures :
       appended[u] < MaxAppends /\ save_conversation_to_user(u, c, fail)
  \/ \E u \in AuthUsers, fail \in DeleteFailures : delete_user_account(u, fail)

Spec == Init /\ [][Next]_vars


\* ------------------------------------ specifications of the read paths
\* get_user_conversations and calculate_stats only read the stores.  Each is
\* run from every content of the stores that the writes above can leave:
\* nodes written by the chat page (text fields only) or through
\* save_conversation_to_user (possibly with a 'timestamp' equal to the key),
\* and local files written newest first.
NodesAt(k) == { StoredData(Entry(k, t)) : t \in Turns } \cup { Entry(k, t) : t \in Turns }

Collections ==
  { c \in UNION { [S -> UNION { NodesAt(k) : k \in Clock }] : S \in SUBSET Clock } :
      \A k \in DOMAIN c : c[k] \in NodesAt(k) }

Entries == { Entry(k, t) : k \in Clock, t \in Turns }

LocalLists ==
  { l \in UNION { [1..n -> Entries] : n \in 0..MaxHist } :
      \A i \in 1..(Len(l) - 1) : l[i].timestamp >= l[i + 1].timestamp }

\* The local lists of one session kept in one mode and language.
UniformLists ==
  { l \in LocalLists :
      \A i, j \in DOMAIN l : l[i].mode = l[j].mode /\ l[i].language = l[j].language }

\* A history file an authenticated id has on disk from a run without remote.
StaleEntry == Entry(1, CHOOSE t \in Turns : t.prompt = "p1")

\* The stores are read at the end of the day MaxClock; no session is logged in.
ReadStart ==
  /\ now = MaxClock
  /\ firebase_ok = TRUE
  /\ user_id = NoUser
  /\ firebase_enabled = TRUE
  /\ history = << >>
  /\ notice = {}
  /\ authIds = AuthUsers
  /\ appended = [u \in Users |-> 0]
  /\ listed = NoListing
  /\ stats = NoStats
  /\ reads = NoReads
  /\ parked = NoSession
  /\ inflight = [c \in Callers |-> Idle]
  /\ exported = NoExport

InitStores ==
  /\ ReadStart
  /\ \E c \in Collections :
       conversations = [u \in Users |-> IF u \in AuthUsers THEN c ELSE NoConversations]

InitList ==
  /\ InitStores
  /\ history_dir = PresentDir
  /\ profile = [u \in Users |-> NoProfile]
  /\ files = [u \in Users |-> NoFile]

NextList ==
  \E u \in AuthUsers, limit \in 0..MaxLimit, ok \in BOOLEAN :
     GetUserConversations(u, limit, ok)

SpecList == InitList /\ [][NextList]_vars

InitStats ==
  /\ InitStores
  /\ \E hasProfile \in BOOLEAN :
       profile = [u \in Users |->
                    IF u \in AuthUsers /\ hasProfile
                    THEN [exists |-> TRUE, has_count |-> FALSE, interaction_count |-> 0]
                    ELSE NoProfile]
  /\ \E g \in {NoFile} \cup { FileOf(l) : l \in UniformLists },
        a \in {NoFile, FileOf(<< >>), FileOf(<< StaleEntry >>)} :
       files = [u \in Users |-> IF u = GUEST THEN g
                                ELSE IF u \in AuthUsers THEN a ELSE NoFile]
  /\ history_dir = PresentDir

NextStats ==
  \E fbOk \in BOOLEAN, usersOk \in BOOLEAN, failing \in SUBSET AuthUsers :
     CalculateStats(fbOk, usersOk, failing)

SpecStats == InitStats /\ [][NextStats]_vars


\* ------------------------------------- stores with malformed timestamps
\* Records whose 'timestamp' is missing or is not an ISO date: remote nodes set
\* through save_conversation_to_user, local files not written by the chat page.
Stamps == Clock \cup {NoTs, BadTs}

StampedNodes == { Entry(ts, i) : ts \in Stamps, i \in Inputs }

StampedCollections ==
  UNION { [S -> StampedNodes] : S \in SUBSET Clock }

StampedLists == UNION { [1..n -> StampedNodes] : n \in 0..MaxHist }

InitStamped ==
  /\ ReadStart
  /\ history_dir = PresentDir
  /\ profile = [u \in Users |-> NoProfile]
  /\ \E c \in StampedCollections :
       conversations = [u \in Users |-> IF u \in AuthUsers THEN c ELSE NoConversations]
  /\ \E g \in {NoFile} \cup { FileOf(l) : l \in StampedLists } :
       files = [u \in Users |-> IF u = GUEST THEN g ELSE NoFile]

SpecStamped == InitStamped /\ [][NextStats]_vars


\* ------------------------------------ stores with values of other shapes
\* A remote node or an element of a local file that is not an object: set
\* through save_conversation_to_user, which stores what it is given, or
\* written to the file by something else than the chat page.
ShapedNodes == { Entry(ts, i) : ts \in Clock, i \in Inputs } \cup { NotAnObject }

ShapedCollections == UNION { [S -> ShapedNodes] : S \in SUBSET Clock }

ShapedLists == UNION { [1..n -> ShapedNodes] : n \in 0..MaxHist }

InitShaped ==
  /\ ReadStart
  /\ history_dir = PresentDir
  /\ profile = [u \in Users |-> NoProfile]
  /\ \E c \in ShapedCollections :
       conversations = [u \in Users |-> IF u \in AuthUsers THEN c ELSE NoConversations]
  /\ \E g \in {NoFile} \cup { FileOf(l) : l \in ShapedLists } :
       files = [u \in Users |-> IF u = GUEST THEN g ELSE NoFile]

SpecShaped == InitShaped /\ [][NextStats]_vars


\* ------------------------------------------- data left by earlier runs
\* The profile sign_up has set for each account.
SignedUp ==
  [u \in Users |->
     IF u \in Accounts
     THEN [exists |-> TRUE, has_count |-> TRUE, interaction_count |-> 0]
     ELSE NoProfile]

\* A history file written by an earlier run without remote.
OldFiles == { NoFile, FileOf(<< StaleEntry >>) }

\* A remote collection written by an earlier run.
OldCollections ==
  { NoConversations, PutChild(NoConversations, 1, StoredData(StaleEntry)) }


\* ------------------------------------------ stores with unparsable files
\* The history directory as other runs have left it: per user no file, a file
\* json.load accepts, or one it rejects (a write that ended early, an edit by
\* hand), listed by os.listdir in any order.  Remote users are the accounts
\* with a profile or with conversations.
FilesOnDisk == { NoFile, CorruptFile, FileOf(<< StaleEntry >>) }

InitCorrupt ==
  /\ ReadStart
  /\ \E o \in Orders : history_dir = [state |-> "present", order |-> o]
  /\ \E P \in SUBSET Accounts :
       profile = [u \in Users |-> IF u \in P THEN SignedUp[u] ELSE NoProfile]
  /\ \E c \in OldCollections :
       conversations = [u \in Users |-> IF u \in AuthUsers THEN c ELSE NoConversations]
  /\ files \in [Users -> FilesOnDisk]

SpecCorrupt == InitCorrupt /\ [][NextStats]_vars


\* ------------------------------------------------ loads of a local file
\* The guest continues from the login page over a directory left by other
\* runs: present with files, or not there, in a place where it can or cannot be
\* created.
InitLoad ==
  /\ LoginPage
  /\ authIds = {}
  /\ profile = [u \in Users |-> NoProfile]
  /\ conversations = [u \in Users |-> NoConversations]
  /\ appended = [u \in Users |-> 0]
  /\ \/ /\ history_dir = PresentDir
        /\ \E g \in {NoFile, CorruptFile} \cup { FileOf(l) : l \in LocalLists },
              a \in FilesOnDisk :
             files = [u \in Users |-> IF u = GUEST THEN g
                                      ELSE IF u \in AuthUsers THEN a ELSE NoFile]
     \/ /\ \E st \in {"absent", "denied"} :
             history_dir = [state |-> st, order |-> ListedFirst]
        /\ files = [u \in Users |-> NoFile]

NextLoad ==
  \/ ContinueAsGuest
  \/ \E fb \in BOOLEAN : Restart(fb)

SpecLoad == InitLoad /\ [][NextLoad]_vars


\* ------------------------------------------------------ runs of Export
\* A guest session whose history holds one turn with any prompt and response,
\* or two turns with prompts of one character.
ExportLists ==
  { << EntryDict(1, p, r) >> : p \in Texts, r \in Texts }
    \cup { << EntryDict(t1, << c1 >>, << >>), EntryDict(t2, << c2 >>, << >>) >> :
            t1 \in Clock, t2 \in Clock, c1 \in Chars, c2 \in Chars }

InitExport ==
  /\ now = MaxClock
  /\ firebase_ok = FALSE
  /\ user_id = GUEST
  /\ firebase_enabled = FALSE
  /\ history \in ExportLists
  /\ notice = {}
  /\ authIds = {}
  /\ profile = [u \in Users |-> NoProfile]
  /\ EmptyStores
  /\ listed = NoListing
  /\ stats = NoStats
  /\ reads = NoReads
  /\ history_dir = PresentDir
  /\ parked = NoSession
  /\ inflight = [c \in Callers |-> Idle]
  /\ exported = NoExport

SpecExport == InitExport /\ [][Export]_vars


\* --------------------------------------------- two accounts, one session
\* Both accounts have signed up (sign_up has set their profile).  The one that
\* signed up before the runs and the guest may have data stored already: a
\* remote entry, a local history file.  The session logs in and out as the
\* guest (without remote) or as either account (with remote).
InitPair ==
  /\ LoginPage
  /\ authIds = Accounts
  /\ profile = SignedUp
  /\ appended = [u \in Users |-> 0]
  /\ history_dir = PresentDir
  /\ \E c \in OldCollections :
       conversations = [u \in Users |-> IF u \in OtherUsers THEN c ELSE NoConversations]
  /\ \E g \in OldFiles, o \in OldFiles :
       files = [u \in Users |-> IF u = GUEST THEN g
                                ELSE IF u \in OtherUsers THEN o ELSE NoFile]

NextPair ==
  \/ ContinueAsGuest
  \/ \E u \in Accounts : Login(u, TRUE)
  \/ Logout
  \/ now < MaxClock /\ Tick
  \/ /\ user_id # NoUser
     /\ Len(history) < MaxHist
     /\ UseRemote(user_id, firebase_enabled) => appended[user_id] < MaxAppends
     /\ \E inp \in Inputs, key \in Clock, ok \in BOOLEAN : Send(inp, key, TRUE, ok)
  \/ \E ok \in BOOLEAN : ResetChat(ok)
  \/ \E ok \in BOOLEAN : DeleteAll(ok)

SpecPair == InitPair /\ [][NextPair]_vars


\* ------------------------------------------------ one user, three appends
\* One session, of the guest (without remote) or of the account (with remote),
\* appends turns over empty stores; the model answers and every write
\* completes.
InitScenario ==
  /\ LoginPage
  /\ authIds = Accounts
  /\ profile = SignedUp
  /\ EmptyStores
  /\ history_dir = PresentDir

NextScenario ==
  \/ ContinueAsGuest
  \/ \E u \in AuthUsers : Login(u, TRUE)
  \/ now < MaxScenario /\ Tick
  \/ /\ user_id # NoUser
     /\ Len(history) < MaxScenario
     /\ \E inp \in Turns, key \in 1..MaxScenario : Send(inp, key, TRUE, TRUE)

SpecScenario == InitScenario /\ [][NextScenario]_vars


\* ------------------------------------------------ two sessions, one user
\* Two browser sessions of one process, both on the login page; the account
\* has signed up.  Without remote both continue as the guest, with remote
\* both log in as the account; each appends turns.
InitSessions ==
  /\ LoginPage
  /\ authIds = Accounts
  /\ profile = SignedUp
  /\ EmptyStores
  /\ history_dir = PresentDir

NextSessions ==
  \/ ContinueAsGuest
  \/ \E u \in AuthUsers, readOk \in BOOLEAN : Login(u, readOk)
  \/ now < MaxClock /\ Tick
  \/ /\ user_id # NoUser
     /\ Len(history) < MaxHist
     /\ UseRemote(user_id, firebase_enabled) => appended[user_id] < MaxAppends
     /\ \E inp \in Turns, key \in Clock, ok \in BOOLEAN : Send(inp, key, TRUE, ok)
  \/ Switch

SpecSessions == InitSessions /\ [][NextSessions]_vars


\* ------------------------------------------- callers at the same time
\* Two callers of save_conversation_to_user for the account that has signed
\* up, over empty stores.
InitCalls ==
  /\ LoginPage
  /\ authIds = Accounts
  /\ profile = SignedUp
  /\ EmptyStores
  /\ history_dir = PresentDir

NextCalls ==
  \/ now < MaxClock /\ Tick
  \/ \E c \in Callers, u \in AuthUsers, conv \in Conversations, fail \in Failures :
       appended[u] < MaxScenario /\ save_conversation_read(c, u, conv, fail)
  \/ \E c \in Callers, setOk \in BOOLEAN : save_conversation_count(c, setOk)

SpecCalls == InitCalls /\ [][NextCalls]_vars


\* ------------------------------------------- a guest and the wall clock
\* One session over empty stores: the guest appends turns to the local file,
\* the process is started again and the history is loaded again, while the
\* wall clock moves on or is set back.
NextWallClock ==
  \/ ContinueAsGuest
  \/ \E fb \in BOOLEAN : Restart(fb)
  \/ now < MaxClock /\ Tick
  \/ SetBack
  \/ /\ user_id # NoUser
     /\ Len(history) < MaxHist
     /\ \E inp \in Inputs, ok \in BOOLEAN : Send(inp, now, TRUE, ok)
  \/ \E readOk \in BOOLEAN : ReloadFromFirebase(readOk)

SpecWallClock == Init /\ [][NextWallClock]_vars


\* ================================================================ claims
\* calculate_stats over the stores without the data of user u, the remote
\* reads completing as they did in the last run.
StatsWithout(u) ==
  calculate_stats([conversations EXCEPT ![u] = NoConversations],
                  [profile EXCEPT ![u] = NoProfile],
                  [files EXCEPT ![u] = NoFile], history_dir,
                  DateOf(now), stats.firebase_enabled, reads.usersOk, reads.failing)

\* What the data of user u added to total_messages in the last run (the stores
\* are read, never written, by calculate_stats).
Added(u) == stats.total_messages - StatsWithout(u).total_messages

\* The id has a remote conversation collection and a local history file.
HasBoth(u) == DOMAIN conversations[u] # {} /\ files[u].exists

RemoteSize(u) == Cardinality(DOMAIN conversations[u])

\* C1 as stated: whenever calculate_stats reports the remote backend
\* available, an id that has a remote collection and a local file adds exactly
\* the size of its remote collection to total_messages.
C1_DedupAsStated ==
  (stats.run /\ stats.firebase_enabled) =>
    \A u \in Users : HasBoth(u) => Added(u) = RemoteSize(u)

\* C1 (amended): whenever calculate_stats reports the remote backend available,
\* an id that has a remote collection and a local file adds to total_messages
\* the size of its remote collection when the reads of users and of its
\* conversations complete, and nothing when one of them raises; its local
\* entries are never added.
C1_Dedup ==
  (stats.run /\ stats.firebase_enabled) =>
    \A u \in Users :
       HasBoth(u) =>
         Added(u) = IF reads.usersOk /\ u \notin reads.failing
                    THEN RemoteSize(u) ELSE 0

\* C1 witness: a run that reported the remote backend available, over an id
\* with remote entries and a local file that holds entries, counted the remote
\* entries alone.
C1_Witness ==
  /\ stats.run /\ stats.firebase_enabled
  /\ reads.usersOk /\ reads.failing = {}
  /\ ~files[GUEST].exists
  /\ \E u \in AuthUsers :
       /\ HasBoth(u)
       /\ files[u].entries # << >>
       /\ stats.total_messages = RemoteSize(u)


\* The list is in non-increasing timestamp order.
NewestFirst(l) == \A i \in 1..(Len(l) - 1) : l[i].timestamp >= l[i + 1].timestamp

\* Every element of the list is a node of the collection, its key as timestamp.
NodesOf(l, coll) ==
  \A i \in 1..Len(l) :
     /\ l[i].timestamp \in DOMAIN coll
     /\ l[i] = WithTs(coll[l[i].timestamp], l[i].timestamp)

\* C10 as stated: get_user_conversations(uid, limit=N) returns the user's
\* entries newest first, each with its key as timestamp, and min(N, number of
\* entries stored) of them.
C10_ListAsStated ==
  listed.uid # NoUser =>
    /\ NewestFirst(listed.result)
    /\ NodesOf(listed.result, conversations[listed.uid])
    /\ Len(listed.result) = Min(listed.limit, RemoteSize(listed.uid))

\* C10 (amended): when initialize_firebase and the read complete,
\* get_user_conversations(uid, limit=N) returns the user's entries newest
\* first, each with its key as timestamp, and min(N, number of entries stored)
\* of them; when one of them raises it returns the empty list.
C10_List ==
  listed.uid # NoUser =>
    IF listed.ok
    THEN /\ NewestFirst(listed.result)
         /\ NodesOf(listed.result, conversations[listed.uid])
         /\ Len(listed.result) = Min(listed.limit, RemoteSize(listed.uid))
    ELSE listed.result = << >>

\* C10 witness: a completed call with a limit of at least one, smaller than the
\* number of entries stored, returned exactly limit entries.
C10_Witness ==
  /\ listed.uid # NoUser /\ listed.ok
  /\ listed.limit >= 1
  /\ RemoteSize(listed.uid) > listed.limit
  /\ Len(listed.result) = listed.limit


\* What a fresh session of the user lists from the backend it loads from,
\* cut to limit, the reads completing.
FreshList(conv, fl, uid, limit) == PySlice(LoadHistory(conv, fl, uid, TRUE), limit)

\* A step of "Send" in which the model answered; ok: the write completed.
SendStep(ok) == \E inp \in Inputs, key \in Clock : Send(inp, key, TRUE, ok)

\* A step of "Reset Chat" or "Delete All"; ok: the write completed.
ClearStep(ok) == ResetChat(ok) \/ DeleteAll(ok)

\* C2: after an Append of entry e (the write completing), a fresh List of the
\* user with limit 1 returns exactly e, the entry kept in the session history:
\* same timestamp, prompt, response, mode and language.
C2_AppendThenList ==
  [][SendStep(TRUE) =>
       FreshList(conversations', files', user_id, 1) = << history'[1] >>]_vars

\* C3: after ClearAll ("Reset Chat" or "Delete All", the write completing) the
\* list a fresh session of that user loads from its backend is empty.
C3_ClearIsDurable ==
  [][ClearStep(TRUE) =>
       FreshList(conversations', files', user_id, MaxHist + MaxClock) = << >>]_vars

\* The entries of the user's collection on the backend active for the user.
Stored(conv, fl, uid) ==
  IF LoadFromRemote(uid)
  THEN { WithTs(conv[uid][k], k) : k \in DOMAIN conv[uid] }
  ELSE { fl[uid].entries[i] : i \in 1..Len(fl[uid].entries) }

\* C4: an entry of a user's collection stays in it, unchanged, in every step
\* that is neither a ClearAll of that user nor delete_user_account of that user.
C4_EntriesStay ==
  [][\A u \in Users :
       \/ Stored(conversations, files, u) \subseteq Stored(conversations', files', u)
       \/ (user_id = u /\ \E ok \in BOOLEAN : ClearStep(ok))
       \/ \E fail \in DeleteFailures : delete_user_account(u, fail)]_vars

\* C5: the interaction_count of a user's profile (0 when the field is absent)
\* equals the number of entries appended for the user through the remote path.
C5_CountMatchesAppends ==
  \A u \in AuthUsers :
     profile[u].exists =>
       (IF profile[u].has_count THEN profile[u].interaction_count ELSE 0)
         = appended[u]

\* C6: no node is ever written under users/guest, and every guest Append
\* rewrites the guest's local file with the new entry in front, leaving the
\* remote store as it was.
C6_GuestIsLocal ==
  /\ [](DOMAIN conversations[GUEST] = {} /\ ~profile[GUEST].exists)
  /\ [][\A inp \in Inputs, key \in Clock :
          (user_id = GUEST /\ Send(inp, key, TRUE, TRUE)) =>
             /\ files'[GUEST] = FileOf(<< Entry(now, inp) >> \o history)
             /\ UNCHANGED remote]_vars

\* C6 witness: the guest has appended an entry, and it is in the guest's file.
C6_Witness ==
  /\ user_id = GUEST
  /\ "saved" \in notice /\ "save_error" \notin notice
  /\ history # << >>
  /\ files[GUEST] = FileOf(history)

\* C7: when the write of an Append fails, the turn is not reported as saved,
\* the error is reported, and nothing is written to the other backend.
C7_FailedWriteIsSurfaced ==
  [][SendStep(FALSE) =>
       /\ "saved" \notin notice'
       /\ "save_error" \in notice'
       /\ UNCHANGED << conversations, files >>]_vars

\* C8: no two entries of a user's stored collection carry the same timestamp,
\* on either backend.
C8_TimestampsUnique ==
  \A u \in Users :
     /\ \A i, j \in 1..Len(files[u].entries) :
          files[u].entries[i].timestamp = files[u].entries[j].timestamp => i = j
     /\ \A i, j \in 1..Len(load_user_history_from_firebase(conversations, u, TRUE)) :
          LET l == load_user_history_from_firebase(conversations, u, TRUE)
          IN  l[i].timestamp = l[j].timestamp => i = j

\* C9: in a session of an authenticated user with the remote backend
\* available, no Append, "Reset Chat" or "Delete All" creates or modifies a
\* local history file.
C9_RemoteSessionLeavesFiles ==
  [][(/\ user_id \in AuthUsers
      /\ firebase_ok /\ firebase_enabled
      /\ \E ok \in BOOLEAN : SendStep(ok) \/ ClearStep(ok)) =>
       UNCHANGED files]_vars


\* An Append for user a.
AppendFor(a) == user_id = a /\ \E ok \in BOOLEAN : SendStep(ok)

\* A ClearAll for user a.
ClearFor(a) == user_id = a /\ \E ok \in BOOLEAN : ClearStep(ok)

\* C11: an Append or a ClearAll for user A leaves the collection of every
\* other user B as it was on both backends (remote nodes, profile and local
\* file), and what a fresh session of B lists is what it listed before.
C11_Isolation ==
  [][\A a \in Users :
       (AppendFor(a) \/ ClearFor(a)) =>
         \A b \in Users \ {a} :
            /\ conversations'[b] = conversations[b]
            /\ profile'[b] = profile[b]
            /\ files'[b] = files[b]
            /\ FreshList(conversations', files', b, MaxHist + MaxClock)
                 = FreshList(conversations, files, b, MaxHist + MaxClock)]_vars

\* C11 witness: a user has appended an entry while the two other users had
\* entries stored, those of the guest in its file and those of the account under
\* its remote path.
C11_Witness ==
  /\ user_id \in Accounts
  /\ "saved" \in notice /\ "save_error" \notin notice
  /\ files[GUEST].entries # << >>
  /\ \A u \in Accounts : DOMAIN conversations[u] # {}


\* The session has appended exactly three entries, with timestamps T1 < T2 < T3
\* (newest first in the session history), all with mode chat and language en.
ThreeAppended ==
  /\ user_id # NoUser
  /\ Len(history) = 3
  /\ history[1].timestamp > history[2].timestamp
  /\ history[2].timestamp > history[3].timestamp
  /\ \A i \in 1..3 : history[i].mode = "chat" /\ history[i].language = "en"

\* calculate_stats over the stores as they are, every read completing.
StatsNow ==
  calculate_stats(conversations, profile, files, history_dir, DateOf(now),
                  firebase_ok, TRUE, {})

\* C12: after three appends with timestamps T1 < T2 < T3, all chat and en, for
\* one user over empty stores, List(user, 10) returns the three entries in the
\* order [T3, T2, T1], and calculate_stats reports total_messages = 3,
\* modes_used = {chat: 3} and languages_used = {en: 3}.
C12_ThreeAppends ==
  ThreeAppended =>
    /\ FreshList(conversations, files, user_id, 10) = history
    /\ StatsNow.total_messages = 3
    /\ StatsNow.modes_used = [m \in {"chat"} |-> 3]
    /\ StatsNow.languages_used = [l \in {"en"} |-> 3]


\* The record with a well-formed timestamp of another day in place of a
\* missing or unparsable one.
Repaired(rec) ==
  IF Parses(rec.timestamp) THEN rec ELSE WithTs(rec, DateOf(now) - 1)

\* calculate_stats, the reads completing as in the last run, over the stores
\* with every bad timestamp repaired.
StatsRepaired ==
  calculate_stats(
    [u \in Users |-> [k \in DOMAIN conversations[u] |-> Repaired(conversations[u][k])]],
    profile,
    [u \in Users |->
       [files[u] EXCEPT !.entries = [i \in DOMAIN files[u].entries |->
                                       Repaired(files[u].entries[i])]]],
    history_dir, DateOf(now), stats.firebase_enabled, reads.usersOk, reads.failing)

\* The lists calculate_stats counted hold an entry with a bad timestamp.
BadCounted ==
  \/ /\ stats.firebase_enabled /\ reads.usersOk
     /\ \E u \in AuthUsers \ reads.failing :
          \E k \in DOMAIN conversations[u] : ~Parses(conversations[u][k].timestamp)
  \/ \E i \in DOMAIN files[GUEST].entries : ~Parses(files[GUEST].entries[i].timestamp)

\* C13: calculate_stats completes over entries whose timestamp is missing or
\* unparsable, and its result is the one it gives when each such entry carries
\* a well-formed timestamp of another day: the entry is counted in
\* total_conversations, total_messages, languages_used and modes_used, every
\* other entry is counted as before, and the entry alone does not make its user
\* active today.
C13_BadTimestamp ==
  stats.run => stats = StatsRepaired

\* C13 witness: a run counted a list that holds an entry with an unparsable
\* timestamp before an entry dated today, counted both, and found the user
\* active today.
C13_Witness ==
  /\ stats.run /\ BadCounted
  /\ Len(files[GUEST].entries) = 2
  /\ files[GUEST].entries[1].timestamp = BadTs
  /\ files[GUEST].entries[2].timestamp = DateOf(now)
  /\ stats.total_messages >= 2
  /\ stats.active_today >= 1


\* The users the read of 'users' returned in the last run.
UsersRead ==
  IF stats.firebase_enabled THEN get_all_users(profile, conversations, reads.usersOk)
  ELSE {}

\* The users with a history file in the directory.
LocalFiles == { u \in Users : files[u].exists }

\* C14: calculate_stats reports total_users as the maximum of the number of
\* remote users (those the read of users returned; none when the remote
\* backend is unavailable) and the number of local user history files, never
\* their sum; with the remote backend unavailable it is the number of local
\* user history files.
C14_TotalUsers ==
  stats.run =>
    stats.total_users = Max(Cardinality(UsersRead), Cardinality(LocalFiles))

\* The users whose history file json.load accepts.
Parsable == { u \in Users : files[u].exists /\ files[u].parses }

\* C17: when a file of the history directory is unparsable,
\* get_all_local_histories still returns the history of every user with a
\* parsable file, and a run of calculate_stats without remote counts the
\* entries of each of them.
C17_CorruptFileIsSkipped ==
  stats.run =>
    /\ DOMAIN get_all_local_histories(files, history_dir) = Parsable
    /\ ~stats.firebase_enabled =>
         stats.total_messages = Len(Concat([u \in Parsable |-> files[u].entries], Parsable))


\* The guest's history file is absent or holds unparsable content.
NoHistoryOnDisk == ~files[GUEST].exists \/ ~files[GUEST].parses

\* C15: load_chat_history never fails; for a user whose history file is absent
\* or unparsable it returns the empty sequence; it leaves the files as they
\* were.  (The guest's session is the caller: main, line 316.)
C15_LoadNeverFails ==
  [][ContinueAsGuest =>
       /\ "exception" \notin notice'
       /\ NoHistoryOnDisk => history' = << >>
       /\ files' = files]_vars


\* C16: exporting a non-empty history, reading the exported text back and
\* exporting again gives the text of the first export, and the list read back
\* is the exported one: same entries in the same order, every field's text
\* unchanged.
C16_ExportRoundTrip ==
  exported.made =>
    /\ json_loads(exported.text) = exported.from
    /\ json_dumps(json_loads(exported.text)) = exported.text

\* An export of a turn whose prompt is a backslash followed by the letter n.
C16_Witness ==
  /\ exported.made
  /\ exported.from[1][2][2] = << "\\", "n" >>
  /\ exported.text[1][2][2] = << "\"", "\\", "\\", "n", "\"" >>


\* C18: a local save that completes leaves in the user's file the history of
\* the saving session and nothing else, so an entry that another session of the
\* same user appended, and that the saving session never loaded, is no longer
\* in the file.
C18_LocalSaveRewrites ==
  [][(/\ user_id # NoUser
      /\ ~UseRemote(user_id, firebase_enabled)
      /\ parked' = parked
      /\ Len(history') = Len(history) + 1
      /\ notice' = {"saved"})
       => files'[user_id] = FileOf(history')]_vars

\* Two sessions of the guest have each appended an entry and shown "Saved"; the
\* file lacks the entry of the session that saved first.
C18_Witness ==
  /\ user_id = GUEST /\ parked.user_id = GUEST
  /\ notice = {"saved"} /\ parked.notice = {"saved"}
  /\ Len(history) = 1 /\ Len(parked.history) = 1
  /\ files[GUEST] = FileOf(history)
  /\ \A i \in DOMAIN files[GUEST].entries : files[GUEST].entries[i] # parked.history[1]

\* C19: the entry a session of an account appended last through the remote
\* path, and reported as saved, is present in users/{uid}/conversations
\* whatever the other session of the same account appends.
C19_RemoteAppendSafe ==
  \A s \in Sessions :
    (/\ s.user_id \in Accounts
     /\ UseRemote(s.user_id, s.firebase_enabled)
     /\ s.notice = {"saved"}) =>
      \E k \in DOMAIN conversations[s.user_id] :
        conversations[s.user_id][k] = StoredData(s.history[1])


\* C20: no step of a call of save_conversation_to_user, however the calls of
\* concurrent callers interleave, lowers the value stored at
\* users/{uid}/profile/interaction_count.
C20_CountNeverDecremented ==
  [][\A u \in Accounts :
       profile'[u].interaction_count >= profile[u].interaction_count]_vars


\* The users whose collection on the backend the last run counted holds an
\* entry appended today: a remote node whose key is of today, of a user the
\* run read; an entry of today in a history file the run loaded and counted.
AppendedTodayRemote ==
  { u \in UsersRead \ reads.failing :
      \E k \in DOMAIN conversations[u] : DateOf(k) = DateOf(now) }

AppendedTodayLocal ==
  { u \in DOMAIN get_all_local_histories(files, history_dir) :
      /\ CountLocal(stats.firebase_enabled, u)
      /\ \E i \in DOMAIN files[u].entries :
           DateOf(files[u].entries[i].timestamp) = DateOf(now) }

\* C21: active_today of a run of calculate_stats is the number of users whose
\* collection on the counted backend holds an entry appended on the day of
\* the run, remote users included.
C21_ActiveToday ==
  stats.run =>
    stats.active_today = Cardinality(AppendedTodayRemote \cup AppendedTodayLocal)


\* C22: the history that load_chat_history returns for a local user, which
\* the session shows, is newest first, whatever the order of the entries in
\* the file.  (The guest's session is the caller: main, line 316.)
C22_LoadedNewestFirst ==
  [][ContinueAsGuest => NewestFirst(history')]_vars


\* Nothing is stored under users/{u}.
NoSubtree(u) == profile[u] = NoProfile /\ conversations[u] = NoConversations

\* C23: a step that removes the auth identity of a uid leaves no profile and
\* no conversation node of that uid, and a step that removes the subtree
\* users/{uid} removes the identity: never exactly one of the two.
C23_DeleteTogether ==
  [][\A u \in AuthUsers :
       /\ (u \in authIds /\ u \notin authIds') =>
            (profile'[u] = NoProfile /\ conversations'[u] = NoConversations)
       /\ (~NoSubtree(u) /\ profile'[u] = NoProfile
                         /\ conversations'[u] = NoConversations) =>
            u \notin authIds']_vars


\* C24: in every result of calculate_stats total_messages equals
\* total_conversations, whatever the remote store and the local files hold,
\* values that are not records included.
C24_MessagesAreConversations ==
  stats.run => stats.total_messages = stats.total_conversations

====
